---- MODULE Spec2Model ----
(***************************************************************************)
(* alfred-talk: the transcript pipeline of src/index.ts.                   *)
(*                                                                         *)
(* The webhook receiver (a separate OS process) drops one JSON file per    *)
(* call into <transcriptDir>/<dateDir>/<file>.json.  The plugin's          *)
(* transcript watcher fires scanAndProcessTranscripts from a setInterval   *)
(* timer; every execution of that async function is a "pass".  A pass runs *)
(* on the single JavaScript thread until it awaits a sink call             *)
(* (tools.invoke), where it gives the thread back to the event loop.       *)
(* `running` is the pass whose synchronous code holds the thread: timer    *)
(* callbacks and promise continuations start only when it is 0, and while  *)
(* it is p only pass p, the webhook process and a process crash can move.  *)
(*                                                                         *)
(* Spec explores a bounded number of timer firings and restarts.  LiveSpec *)
(* leaves the watcher running for ever, with the fairness of the event     *)
(* loop.  EnvSpec adds the surroundings (hidden files, files removed,      *)
(* directories that cannot be listed) and the tool calls; QuerySpec makes  *)
(* the tool calls on every transcript directory within the bounds.         *)
(* WatchSpec starts and stops the watcher service, a second start without  *)
(* a stop included.  NormSpec runs the pipeline over every payload shape   *)
(* within the bounds, to follow the document that reaches the inbox, and   *)
(* ClashSpec over two calls with dialogue in one mailbox.  ServiceSpec     *)
(* starts and stops the receiver service and lets the receiver exit.       *)
(***************************************************************************)
EXTENDS Integers, Sequences, FiniteSets, TLC

\* ---------------------------------------------------------------- bounds
MaxTicks == 3       \* timer firings explored
MaxMail == 2        \* files the webhook receiver delivers
MaxPasses == 2      \* executions of scanAndProcessTranscripts in flight
MaxRestarts == 1    \* process restarts explored
MaxTimers == 1      \* interval timers alive at once

\* date buckets (ISO dates, ordered as the integers) and file names inside
\* a bucket (HH-MM-SS_<conv>.json, ordered as the integers)
Paths == {<<2, 1>>, <<1, 2>>, <<1, 1>>}

\* Names that start with a dot sort before the digits: key 0 is a dot name
\* (a hidden directory at the root, a hidden *.json file inside a date
\* directory) and LedgerName is the .processed file at the root.
StrayPaths == {<<1, 0>>, <<0, 1>>}

AllPaths == Paths \cup StrayPaths

LedgerName == -1

Gone == -1

\* name.startsWith(".")
IsDot(k) == k <= 0

\* ------------------------------------------------------- JSON file content
\* An optional JSON field is <<>> (absent) or <<v>> (present).
None == <<>>
Some(v) == <<v>>

\* a ?? b
Coalesce(a, b) == IF a # None THEN a ELSE b

NoObj == [user_id |-> None, conversation_id |-> None, metadata |-> None,
          transcript |-> None]

\* { "call_duration_secs": d }
Metadata(d) == Some([call_duration_secs |-> d])

Turn(role, message) == [role |-> Some(role), message |-> Some(message)]

\* The files the receiver may deliver: text that is not JSON, a JSON object
\* without any of the fields, a nested payload whose turns are all dropped,
\* and a flat payload with one retained turn and no caller.
Records == <<
    [valid |-> FALSE, top |-> NoObj, data |-> None],
    [valid |-> TRUE, top |-> NoObj, data |-> None],
    [valid |-> TRUE, top |-> NoObj,
     data |-> Some([user_id |-> Some("+34612345678"), conversation_id |-> Some("abc"),
                    metadata |-> Metadata(Some(0)),
                    transcript |-> Some(<< Turn("agent", <<"<", "b", ">">>),
                                           Turn("user", <<" ", "N", "o", "n", "e">>),
                                           Turn("user", <<>>) >>)])],
    [valid |-> TRUE,
     top |-> [user_id |-> None, conversation_id |-> Some("xyz"),
              metadata |-> Metadata(Some(125)),
              transcript |-> Some(<< Turn("agent", <<"<", "b", ">", "h", "i">>),
                                     Turn("user", <<"n", "o", "n", "e">>) >>)],
     data |-> None]
  >>

RecordIds == 1 .. Len(Records)

\* More payloads, for the normalizer: every choice of shape, caller phone,
\* conversation id, call duration and turns below.  The flat shape is the
\* object of the nested shape without its "data" envelope.
Shapes == <<"flat", "nested">>

PhoneOpts == <<None, Some(""), Some("+34612345678"), Some("+19995550000")>>

ConvOpts == <<None, Some("abc")>>

DurOpts == <<None, Some(0), Some(59), Some(60), Some(125)>>

TurnOpts == <<
    None,
    Some(<< Turn("agent", <<"<", "b", ">", "h", "i">>), Turn("user", <<"n", "o", "n", "e">>) >>),
    Some(<< Turn("user", <<" ", "h", "i", " ">>),
            Turn("system", <<"h", "<", "b", ">", "i">>),
            Turn("agent", <<"<", "b", ">", "h", "i">>),
            Turn("user", <<" ", "N", "o", "n", "e">>),
            [role |-> None, message |-> Some(<<"h", "i">>)],
            Turn("user", <<"H", "i">>) >>),
    Some(<< Turn("user", <<>>), [role |-> Some("agent"), message |-> None],
            Turn("agent", <<"<", "b", ">">>) >>)
  >>

Payload(shape, phone, conv, dur, turns) ==
    LET obj == [user_id |-> phone, conversation_id |-> conv, metadata |-> Metadata(dur),
                transcript |-> turns]
    IN  IF shape = "flat" THEN [valid |-> TRUE, top |-> obj, data |-> None]
        ELSE [valid |-> TRUE, top |-> NoObj, data |-> Some(obj)]

NVariants == Len(Shapes) * Len(PhoneOpts) * Len(ConvOpts) * Len(DurOpts) * Len(TurnOpts)

\* the k-th of them, k from 0: the shape changes fastest
Variant(k) ==
    LET k1 == k \div Len(Shapes)
        k2 == k1 \div Len(PhoneOpts)
        k3 == k2 \div Len(ConvOpts)
        k4 == k3 \div Len(DurOpts)
    IN  Payload(Shapes[(k % Len(Shapes)) + 1], PhoneOpts[(k1 % Len(PhoneOpts)) + 1],
                ConvOpts[(k2 % Len(ConvOpts)) + 1], DurOpts[(k3 % Len(DurOpts)) + 1],
                TurnOpts[(k4 % Len(TurnOpts)) + 1])

VariantIds == (Len(Records) + 1) .. (Len(Records) + NVariants)

\* every file content of the model, by its id
Payloads ==
    [i \in 1 .. (Len(Records) + NVariants) |->
        IF i <= Len(Records) THEN Records[i] ELSE Variant(i - Len(Records) - 1)]

\* the payload with the same fields in the other shape
Twin(i) == IF (i - Len(Records)) % 2 = 1 THEN i + 1 ELSE i - 1

\* JSON.parse(readFileSync(filePath)) succeeds
ParsesAlways(doc) == TRUE

Parses(doc) == doc.valid

\* data?.data?.<f> ?? data?.<f>
Field(doc, f) ==
    Coalesce(IF doc.data # None THEN doc.data[1][f] ELSE None, doc.top[f])

\* ------------------------------------------------------------- normalizer
IndexOfGt(s, from) ==
    IF \E j \in from .. Len(s) : s[j] = ">"
      THEN CHOOSE j \in from .. Len(s) : s[j] = ">" /\ \A k \in from .. (j - 1) : s[k] # ">"
      ELSE 0

RECURSIVE StripTags(_)
\* msg.replace(/<[^>]+>/g, "")
StripTags(s) ==
    IF s = <<>> THEN <<>>
    ELSE IF Head(s) = "<" /\ Len(s) >= 3 /\ s[2] # ">" /\ IndexOfGt(s, 3) # 0
      THEN StripTags(SubSeq(s, IndexOfGt(s, 3) + 1, Len(s)))
      ELSE <<Head(s)>> \o StripTags(Tail(s))

RECURSIVE TrimLeft(_)
TrimLeft(s) == IF s # <<>> /\ Head(s) = " " THEN TrimLeft(Tail(s)) ELSE s

RECURSIVE TrimRight(_)
TrimRight(s) ==
    IF s # <<>> /\ s[Len(s)] = " " THEN TrimRight(SubSeq(s, 1, Len(s) - 1)) ELSE s

Trim(s) == TrimRight(TrimLeft(s))

UpperCase == <<"A", "B", "C", "D", "E", "F", "G", "H", "I", "J", "K", "L", "M",
               "N", "O", "P", "Q", "R", "S", "T", "U", "V", "W", "X", "Y", "Z">>

LowerCase == <<"a", "b", "c", "d", "e", "f", "g", "h", "i", "j", "k", "l", "m",
               "n", "o", "p", "q", "r", "s", "t", "u", "v", "w", "x", "y", "z">>

LowerChar(c) ==
    IF \E i \in 1 .. Len(UpperCase) : UpperCase[i] = c
      THEN LowerCase[CHOOSE i \in 1 .. Len(UpperCase) : UpperCase[i] = c]
      ELSE c

ToLowerCase(s) == [i \in 1 .. Len(s) |-> LowerChar(s[i])]

\* (t.message ?? "").replace(/<[^>]+>/g, "").trim()
CleanMessage(t) == Trim(StripTags(Coalesce(t.message, Some(<<>>))[1]))

RetainedNoFilter(msg) == TRUE

\* msg && msg.toLowerCase() !== "none"
Retained(msg) == msg # <<>> /\ ToLowerCase(msg) # <<"n", "o", "n", "e">>

\* cfg.contacts
Contacts == [p \in {"+34612345678"} |-> "Mom"]

resolveCallerNameRaw(phone) == IF phone # "" THEN phone ELSE "Unknown caller"

\* contacts[phone] || phone || "Unknown caller"
resolveCallerName(phone) ==
    IF phone \in DOMAIN Contacts THEN Contacts[phone]
    ELSE IF phone # "" THEN phone ELSE "Unknown caller"

SpeakerLabelRaw(t, callerName) == Coalesce(t.role, Some("?"))[1]

\* t.role ?? "?", with "agent" and "user" replaced
SpeakerLabel(t, callerName) ==
    LET role == Coalesce(t.role, Some("?"))[1]
    IN  IF role = "agent" THEN "Alfred" ELSE IF role = "user" THEN callerName ELSE role

RECURSIVE LinesOf(_, _)
LinesOf(turns, callerName) ==
    IF turns = <<>> THEN <<>>
    ELSE LET t == Head(turns)
             msg == CleanMessage(t)
         IN  (IF Retained(msg) THEN << <<SpeakerLabel(t, callerName), msg>> >> ELSE <<>>)
               \o LinesOf(Tail(turns), callerName)

\* the dialogue lines processTranscript builds from a parsed file
Lines(doc) ==
    LinesOf(Coalesce(Field(doc, "transcript"), Some(<<>>))[1],
            resolveCallerName(Coalesce(Field(doc, "user_id"), Some(""))[1]))

\* the lines of every file content above, computed once
Dialogue == [doc \in {Payloads[r] : r \in DOMAIN Payloads} |-> Lines(doc)]

\* data?.data?.metadata?.call_duration_secs ?? 0
callDuration(doc) ==
    LET meta == IF doc.data # None THEN doc.data[1].metadata ELSE None
    IN  Coalesce(IF meta # None THEN meta[1].call_duration_secs ELSE None, Some(0))[1]

Digit == <<"0", "1", "2", "3", "4", "5", "6", "7", "8", "9">>

RECURSIVE Decimal(_)
\* `${n}` for a natural number n
Decimal(n) == IF n < 10 THEN <<Digit[n + 1]>> ELSE Decimal(n \div 10) \o <<Digit[(n % 10) + 1]>>

UnknownDuration ==
    <<"u", "n", "k", "n", "o", "w", "n", " ", "d", "u", "r", "a", "t", "i", "o", "n">>

durationStrSeconds(d) == IF d # 0 THEN Decimal(d) \o <<"s">> ELSE UnknownDuration

\* callDuration ? `${Math.floor(callDuration / 60)}m${callDuration % 60}s`
\*              : "unknown duration"
durationStr(d) ==
    IF d # 0 THEN Decimal(d \div 60) \o <<"m">> \o Decimal(d % 60) \o <<"s">>
    ELSE UnknownDuration

\* data?.data?.conversation_id ?? data?.conversation_id ?? "unknown"
conversationId(doc) == Coalesce(Field(doc, "conversation_id"), Some("unknown"))[1]

\* ------------------------------------------------------------------ state
VARIABLES
    mailbox,        \* transcriptDir: path -> 0 (no file yet), the id of its
                    \* content, or Gone (the file was there and was removed)
    ledger,         \* the lines of <transcriptDir>/.processed, in file order
    cfg,            \* plugin config: is tools.invoke there, is inboxDir set,
                    \* do the provider's apiKey and agentId resolve to a value
    watchInterval,  \* the watcher's watchInterval handle is not null
    timers,         \* interval timers alive in the event loop
    passes,         \* the executions of scanAndProcessTranscripts in flight
    running,        \* the pass whose synchronous code holds the thread, or 0
    ticks,          \* timer firings so far
    restarts,       \* process restarts so far
    last,           \* history: the pass that completed last
    atRestart,      \* history: the ledger's paths at the last restart
    reply,          \* the result of the tool call being answered, or NoReply
    inbox,          \* the vault inbox: the documents in inboxDir, by file name
    webhookProcess  \* the receiver's ChildProcess held by the plugin, or None

vars == <<mailbox, ledger, cfg, watchInterval, timers, passes, running,
          ticks, restarts, last, atRestart, reply, inbox, webhookProcess>>

NoReply == [kind |-> "none"]

Slots == 1 .. MaxPasses

Range(s) == {s[i] : i \in 1 .. Len(s)}

MailCount == Cardinality({e \in AllPaths : mailbox[e] # 0})

IdlePass ==
    [pc |-> "idle", processed |-> {}, dirs |-> <<>>, dateDir |-> 0, entries |-> <<>>,
     file |-> 0, data |-> 0, chat |-> "todo", summary |-> "todo", inbox |-> "todo", failed |-> FALSE,
     n0 |-> 0, clean |-> TRUE, succ |-> "no"]

NoLast == [valid |-> FALSE, n0 |-> 0, clean |-> TRUE, runs |-> 0]

InFlight(p) == passes[p].pc # "idle"

CurPath(p) == <<passes[p].dateDir, passes[p].file>>

Doc(e) == Payloads[mailbox[e]]

\* ------------------------------------------------------------------ ledger
loadProcessedEmpty(file) == {}

\* new Set(readFileSync(p).trim().split("\n").filter(Boolean)), or the empty
\* set when the file does not exist
loadProcessed(file) == Range(file)

markProcessedOverwrite(file, path) == <<path>>

markProcessedNoop(file, path) == file

\* appendFileSync(processedFilePath(transcriptDir), path + "\n")
markProcessed(file, path) == Append(file, path)

\* ------------------------------------------------------------- file names
Ext == <<".", "j", "s", "o", "n">>

\* the HH-MM-SS prefix of the files the receiver writes: two calls within
\* one minute
TimeOf(f) ==
    IF f = 1 THEN <<"1", "4", "-", "3", "0", "-", "0", "0">>
             ELSE <<"1", "4", "-", "3", "0", "-", "3", "0">>

\* the name of a date directory
DateName(d) ==
    <<"2", "0", "2", "4", "-", "0", "3", "-", "0">> \o <<Digit[d + 1]>>

\* a string of the model, character by character
Spell(str) ==
    CASE str = "Mom" -> <<"M", "o", "m">>
      [] str = "Unknown caller" ->
            <<"U", "n", "k", "n", "o", "w", "n", " ", "c", "a", "l", "l", "e", "r">>
      [] str = "+34612345678" ->
            <<"+", "3", "4", "6", "1", "2", "3", "4", "5", "6", "7", "8">>
      [] str = "+19995550000" ->
            <<"+", "1", "9", "9", "9", "5", "5", "5", "0", "0", "0", "0">>
      [] str = "abc" -> <<"a", "b", "c">>
      [] str = "unknown" -> <<"u", "n", "k", "n", "o", "w", "n">>

\* the conversation id the receiver puts into the name of each file content
ConvName ==
    << <<"u", "n", "k", "n", "o", "w", "n">>, <<"u", "n", "k", "n", "o", "w", "n">>,
       <<"a", "b", "c">>, <<"x", "y", "z">> >>

\* the same for the further payloads
ConvNameOf(i) ==
    IF i <= Len(ConvName) THEN ConvName[i] ELSE Spell(conversationId(Payloads[i]))

\* the name of the file at e with content i: HH-MM-SS_<conv>.json, or the
\* hidden ._x.json
FileNameOf(e, i) ==
    IF IsDot(e[2]) THEN <<".", "_", "x">> \o Ext
    ELSE TimeOf(e[2]) \o <<"_">> \o ConvNameOf(i) \o Ext

FileName(e) == FileNameOf(e, mailbox[e])

\* name.includes(q)
Includes(name, q) ==
    \E i \in 1 .. (Len(name) - Len(q) + 1) : SubSeq(name, i, i + Len(q) - 1) = q

\* name.endsWith(".json")
EndsWithJson(name) ==
    /\ Len(name) >= Len(Ext)
    /\ SubSeq(name, Len(name) - Len(Ext) + 1, Len(name)) = Ext

\* the place of the first occurrence of the sequence q in name, or 0
IndexOf(name, q) ==
    IF Includes(name, q)
      THEN CHOOSE i \in 1 .. (Len(name) - Len(q) + 1) :
               /\ SubSeq(name, i, i + Len(q) - 1) = q
               /\ \A j \in 1 .. (i - 1) : SubSeq(name, j, j + Len(q) - 1) # q
      ELSE 0

\* file.replace(".json", "")
Stem(name) ==
    LET i == IndexOf(name, Ext)
    IN  IF i = 0 THEN name
        ELSE SubSeq(name, 1, i - 1) \o SubSeq(name, i + Len(Ext), Len(name))

IsDigit(c) == \E i \in 1 .. Len(Digit) : Digit[i] = c

\* fileName.match(/^(\d{2})-(\d{2})-(\d{2})_/)
TimeMatch(name) ==
    /\ Len(name) >= 9
    /\ \A i \in {1, 2, 4, 5, 7, 8} : IsDigit(name[i])
    /\ name[3] = "-" /\ name[6] = "-" /\ name[9] = "_"

\* timeMatch ? `${timeMatch[1]}:${timeMatch[2]}` : "unknown"
timeStr(name) ==
    IF TimeMatch(name) THEN <<name[1], name[2], ":", name[4], name[5]>>
    ELSE <<"u", "n", "k", "n", "o", "w", "n">>

RECURSIVE RemoveFirst(_, _)
\* s.replace(c, ""), for a single character c
RemoveFirst(s, c) ==
    IF s = <<>> THEN <<>>
    ELSE IF Head(s) = c THEN Tail(s) ELSE <<Head(s)>> \o RemoveFirst(Tail(s), c)

\* /[a-z0-9]/
IsSlugChar(c) == IsDigit(c) \/ \E i \in 1 .. Len(LowerCase) : LowerCase[i] = c

callerSlugKeepsCase(callerName) ==
    LET str == Spell(callerName)
    IN  [i \in 1 .. Len(str) |-> IF IsSlugChar(str[i]) THEN str[i] ELSE "-"]

\* callerName.toLowerCase().replace(/[^a-z0-9]/g, "-")
callerSlug(callerName) ==
    LET low == ToLowerCase(Spell(callerName))
    IN  [i \in 1 .. Len(low) |-> IF IsSlugChar(low[i]) THEN low[i] ELSE "-"]

\* `voice-${dateStr}-${timeSlug}-${callerSlug}.md`
inboxFilename(e, i, callerName) ==
    <<"v", "o", "i", "c", "e", "-">> \o DateName(e[1]) \o <<"-">>
        \o RemoveFirst(timeStr(FileNameOf(e, i)), ":") \o <<"-">>
        \o callerSlug(callerName) \o <<".", "m", "d">>

\* stem.split("_").slice(1).join("_"): what follows the first underscore
ConvIdOf(name) ==
    LET st == Stem(name)
        i == IndexOf(st, <<"_">>)
    IN  IF i = 0 THEN <<>> ELSE SubSeq(st, i + 1, Len(st))

\* ------------------------------------------------------------ the scan loop
RECURSIVE SortedDesc(_)
\* readdirSync(transcriptDir).sort().reverse(), without the dot entries
SortedDesc(S) ==
    IF S = {} THEN <<>>
    ELSE LET m == CHOOSE x \in S : \A y \in S : y <= x
         IN  <<m>> \o SortedDesc(S \ {m})

\* the orders readdirSync(datePath) may list a bucket's *.json files in
Listings(S) ==
    {s \in [1 .. Cardinality(S) -> S] : \A i, j \in 1 .. Cardinality(S) : s[i] = s[j] => i = j}

\* readdirSync(transcriptDir): the directories that hold a file, and the
\* ledger file once it has been written
RootNames ==
    {e[1] : e \in {x \in AllPaths : mailbox[x] > 0}}
        \cup (IF ledger # <<>> THEN {LedgerName} ELSE {})

\* the root entries that pass `if (dateDir.startsWith(".")) continue`
Buckets == {d \in RootNames : ~IsDot(d)}

\* readdirSync(datePath).filter(f => f.endsWith(".json"))
FilesIn(b) == {e[2] : e \in {x \in AllPaths : mailbox[x] > 0 /\ x[1] = b}}

\* readFileSync(filePath) finds the file
Readable(e) == mailbox[e] > 0

RetainUnlinks(box, path) == [box EXCEPT ![path] = 0]

\* what processTranscript does to the file it was given: nothing
Retain(box, path) == box

ScanCatchAborts(pass) ==
    [pass EXCEPT !.pc = "entry", !.file = 0, !.data = 0, !.failed = FALSE, !.entries = <<>>,
                 !.dirs = <<>>, !.chat = "todo", !.summary = "todo", !.inbox = "todo"]

\* the catch of the scan loop: log the failure and go on with the next file
ScanCatch(pass) ==
    [pass EXCEPT !.pc = "entry", !.file = 0, !.data = 0, !.failed = FALSE,
                 !.chat = "todo", !.summary = "todo", !.inbox = "todo"]

FirstStageMarkFirst(doc, c) == "mark"

\* where processTranscript goes after building the lines: straight to
\* markProcessed when there are none, else to the first sink that is configured
FirstStage(doc, c) ==
    IF Dialogue[doc] = <<>> THEN "mark" ELSE IF c.tools THEN "chat" ELSE "inbox"

SinkOutcomeThrows(pass, sink, ok, next) ==
    IF ok THEN [pass EXCEPT ![sink] = "returned", !.pc = next] ELSE ScanCatch(pass)

\* a sink's try/catch: a failure is logged and processTranscript goes on
SinkOutcome(pass, sink, ok, next) ==
    [pass EXCEPT ![sink] = "returned", !.pc = next, !.failed = @ \/ ~ok]

\* data?.data?.user_id ?? data?.user_id ?? ""
userPhone(doc) == Coalesce(Field(doc, "user_id"), Some(""))[1]

InboxContentStamped(e, i) ==
    [date |-> DateName(e[1]),
     time |-> timeStr(FileNameOf(e, i)),
     caller |-> resolveCallerName(userPhone(Payloads[i])),
     phone |-> userPhone(Payloads[i]),
     duration |-> durationStr(callDuration(Payloads[i])),
     conversation_id |-> conversationId(Payloads[i]),
     lines |-> Dialogue[Payloads[i]],
     written |-> Len(ledger)]

\* the frontmatter and the body of the inbox document for the file at e,
\* read as payload i: date, time, caller, phone, duration, conversation id
\* and the dialogue
InboxContent(e, i) ==
    [date |-> DateName(e[1]),
     time |-> timeStr(FileNameOf(e, i)),
     caller |-> resolveCallerName(userPhone(Payloads[i])),
     phone |-> userPhone(Payloads[i]),
     duration |-> durationStr(callDuration(Payloads[i])),
     conversation_id |-> conversationId(Payloads[i]),
     lines |-> Dialogue[Payloads[i]]]

\* the file the inbox writer writes for it
InboxFile(e, i) ==
    [name |-> inboxFilename(e, i, resolveCallerName(userPhone(Payloads[i]))),
     content |-> InboxContent(e, i)]

writeFileSyncNew(dir, file) == dir \cup {file}

\* writeFileSync(inboxPath, frontmatter + body): the file is made, or its old
\* content is replaced
writeFileSync(dir, file) == {f \in dir : f.name # file.name} \cup {file}

\* ----------------------------------------------------------------- actions
Init ==
    /\ mailbox = [e \in AllPaths |-> 0]
    /\ ledger = <<>>
    /\ cfg \in [tools : BOOLEAN, inboxDir : BOOLEAN, apiKey : {TRUE}, agentId : {TRUE}]
    /\ watchInterval = FALSE
    /\ timers = 0
    /\ passes = [p \in Slots |-> IdlePass]
    /\ running = 0
    /\ ticks = 0
    /\ restarts = 0
    /\ last = NoLast
    /\ atRestart = {}
    /\ reply = NoReply
    /\ inbox = {}
    /\ webhookProcess = None

\* the webhook receiver writes a new transcript file
Deliver(e, r) ==
    /\ mailbox[e] = 0
    /\ MailCount < MaxMail
    /\ mailbox' = [mailbox EXCEPT ![e] = r]
    /\ UNCHANGED <<ledger, cfg, watchInterval, timers, passes, running,
                   ticks, restarts, last, atRestart, reply, inbox,
                   webhookProcess>>

\* alfred-talk-transcript-watcher start(): a new interval timer
Start ==
    /\ running = 0
    /\ timers < MaxTimers
    /\ watchInterval' = TRUE
    /\ timers' = timers + 1
    /\ UNCHANGED <<mailbox, ledger, cfg, passes, running, ticks, restarts,
                   last, atRestart, reply, inbox, webhookProcess>>

\* alfred-talk-transcript-watcher stop(): clears the timer of the handle
Stop ==
    /\ running = 0
    /\ watchInterval
    /\ watchInterval' = FALSE
    /\ timers' = timers - 1
    /\ UNCHANGED <<mailbox, ledger, cfg, passes, running, ticks, restarts,
                   last, atRestart, reply, inbox, webhookProcess>>

\* the process dies and the plugin is registered again: only the files stay
RestartBody ==
    /\ watchInterval' = FALSE
    /\ timers' = 0
    /\ passes' = [p \in Slots |-> IdlePass]
    /\ running' = 0
    /\ last' = NoLast
    /\ webhookProcess' = None
    /\ UNCHANGED <<mailbox, ledger, cfg, ticks, reply, inbox>>

\* a restart, counted so that the restarts explored are bounded
Restart ==
    /\ restarts < MaxRestarts
    /\ restarts' = restarts + 1
    /\ atRestart' = Range(ledger)
    /\ RestartBody

\* the interval fires: scanAndProcessTranscripts starts, loads the ledger and
\* lists the date directories
TickBody(p) ==
    /\ running = 0
    /\ timers > 0
    /\ ~InFlight(p)
    /\ \A q \in Slots : q < p => InFlight(q)
    /\ passes' = [passes EXCEPT ![p] =
          [IdlePass EXCEPT !.pc = "entry",
                           !.processed = loadProcessed(ledger),
                           !.dirs = SortedDesc(Buckets),
                           !.n0 = MailCount,
                           !.succ = IF last.valid /\ last.n0 = MailCount
                                       /\ \A q \in Slots : ~InFlight(q)
                                    THEN IF last.clean THEN "clean" ELSE "any"
                                    ELSE "no"]]
    /\ running' = p
    /\ UNCHANGED <<mailbox, ledger, cfg, watchInterval, timers, restarts,
                   last, atRestart, reply, inbox, webhookProcess>>

\* a timer firing, counted so that the firings explored are bounded
Tick(p) ==
    /\ ticks < MaxTicks
    /\ ticks' = ticks + 1
    /\ TickBody(p)

\* the outer loop: the files of the current date directory are done, so the
\* next one is listed, or the scan returns
NextBucketBody(p) ==
    /\ running = p
    /\ passes[p].pc = "entry"
    /\ passes[p].entries = <<>>
    /\ IF passes[p].dirs = <<>>
         THEN /\ passes' = [passes EXCEPT ![p] = IdlePass]
              /\ running' = 0
         ELSE /\ \E order \in Listings(FilesIn(Head(passes[p].dirs))) :
                    passes' = [passes EXCEPT ![p].dateDir = Head(passes[p].dirs),
                                             ![p].dirs = Tail(passes[p].dirs),
                                             ![p].entries = order]
              /\ UNCHANGED running
    /\ UNCHANGED <<mailbox, ledger, cfg, watchInterval, timers, ticks,
                   restarts, atRestart, reply, inbox, webhookProcess>>

\* the same, with the history of the scans that returned
NextBucket(p) ==
    /\ NextBucketBody(p)
    /\ last' = IF passes[p].dirs = <<>>
                 THEN [valid |-> TRUE, n0 |-> passes[p].n0, clean |-> passes[p].clean,
                       runs |-> IF last.valid /\ last.n0 = passes[p].n0
                                  THEN IF last.runs < MaxTicks THEN last.runs + 1
                                       ELSE MaxTicks
                                  ELSE 1]
                 ELSE last

\* the inner loop: the next file is skipped, or handed to processTranscript,
\* which runs up to its first await, its markProcessed or its exception
NextEntry(p) ==
    /\ running = p
    /\ passes[p].pc = "entry"
    /\ passes[p].entries # <<>>
    /\ LET f == Head(passes[p].entries)
           e == <<passes[p].dateDir, f>>
           rest == [passes[p] EXCEPT !.entries = Tail(passes[p].entries)]
           stage == FirstStage(Doc(e), cfg)
           cur == [rest EXCEPT !.file = f, !.data = mailbox[e], !.pc = stage]
       IN  IF e \in passes[p].processed
             THEN /\ passes' = [passes EXCEPT ![p] = rest]
                  /\ UNCHANGED running
           ELSE IF ~Readable(e) \/ ~Parses(Doc(e))
             THEN /\ passes' = [passes EXCEPT ![p] = ScanCatch(rest)]
                  /\ UNCHANGED running
           ELSE /\ passes' = [passes EXCEPT ![p] =
                      IF stage = "chat" THEN [cur EXCEPT !.chat = "pending"]
                      ELSE IF stage = "inbox"
                        THEN [cur EXCEPT !.chat = "skipped", !.summary = "skipped"]
                      ELSE cur]
                /\ running' = IF stage = "chat" THEN 0 ELSE p
    /\ UNCHANGED <<mailbox, ledger, cfg, watchInterval, timers, ticks, restarts,
                   last, atRestart, reply, inbox, webhookProcess>>

\* tools.invoke("message") settles: the result is caught or kept, and
\* tools.invoke("sessions_spawn") is called and awaited
ChatReturn(p, ok) ==
    /\ running = 0
    /\ passes[p].pc = "chat"
    /\ LET np == SinkOutcome(passes[p], "chat", ok, "summary")
       IN  /\ passes' = [passes EXCEPT ![p] =
                 IF np.pc = "summary" THEN [np EXCEPT !.summary = "pending"] ELSE np]
           /\ running' = IF np.pc = "summary" THEN 0 ELSE p
    /\ UNCHANGED <<mailbox, ledger, cfg, watchInterval, timers, ticks, restarts,
                   last, atRestart, reply, inbox, webhookProcess>>

\* tools.invoke("sessions_spawn") settles
SummaryReturn(p, ok) ==
    /\ running = 0
    /\ passes[p].pc = "summary"
    /\ passes' = [passes EXCEPT ![p] = SinkOutcome(passes[p], "summary", ok, "inbox")]
    /\ running' = p
    /\ UNCHANGED <<mailbox, ledger, cfg, watchInterval, timers, ticks,
                   restarts, last, atRestart, reply, inbox, webhookProcess>>

\* the vault inbox write, when inboxDir is configured
InboxWrite(p, ok) ==
    /\ running = p
    /\ passes[p].pc = "inbox"
    /\ IF cfg.inboxDir
         THEN /\ passes' = [passes EXCEPT ![p] = SinkOutcome(passes[p], "inbox", ok, "mark")]
              /\ inbox' = IF ok THEN writeFileSync(inbox, InboxFile(CurPath(p), passes[p].data))
                                ELSE inbox
         ELSE /\ ok
              /\ passes' = [passes EXCEPT ![p].inbox = "skipped", ![p].pc = "mark"]
              /\ inbox' = inbox
    /\ UNCHANGED <<mailbox, ledger, cfg, watchInterval, timers, running, ticks,
                   restarts, last, atRestart, reply, webhookProcess>>

\* markProcessed: the append succeeds, or throws into the catch of the scan loop
Mark(p, ok) ==
    /\ running = p
    /\ passes[p].pc = "mark"
    /\ IF ok
         THEN /\ ledger' = markProcessed(ledger, CurPath(p))
              /\ passes' = [passes EXCEPT ![p] =
                    [passes[p] EXCEPT !.pc = "entry", !.file = 0, !.data = 0,
                                      !.failed = FALSE,
                                      !.chat = "todo", !.summary = "todo",
                                      !.inbox = "todo"]]
         ELSE /\ ledger' = ledger
              /\ passes' = [passes EXCEPT ![p] = ScanCatch([passes[p] EXCEPT !.clean = FALSE])]
    /\ mailbox' = Retain(mailbox, CurPath(p))
    /\ UNCHANGED <<cfg, watchInterval, timers, running, ticks,
                   restarts, last, atRestart, reply, inbox, webhookProcess>>

Next ==
    \/ \E e \in Paths, r \in RecordIds : Deliver(e, r)
    \/ Start
    \/ Stop
    \/ Restart
    \/ \E p \in Slots : Tick(p)
    \/ \E p \in Slots : NextBucket(p)
    \/ \E p \in Slots : NextEntry(p)
    \/ \E p \in Slots, ok \in BOOLEAN : ChatReturn(p, ok)
    \/ \E p \in Slots, ok \in BOOLEAN : SummaryReturn(p, ok)
    \/ \E p \in Slots, ok \in BOOLEAN : InboxWrite(p, ok)
    \/ \E p \in Slots, ok \in BOOLEAN : Mark(p, ok)

Spec == Init /\ [][Next]_vars

\* ------------------------------------------------- the watcher left running
\* a timer firing that is not counted: the interval fires for ever
Fire(p) ==
    /\ UNCHANGED ticks
    /\ TickBody(p)

\* the outer loop, without the history
LoopBucket(p) ==
    /\ NextBucketBody(p)
    /\ UNCHANGED last

LiveNext ==
    \/ \E e \in Paths, r \in RecordIds : Deliver(e, r)
    \/ Start
    \/ \E p \in Slots : Fire(p)
    \/ \E p \in Slots : LoopBucket(p)
    \/ \E p \in Slots : NextEntry(p)
    \/ \E p \in Slots, ok \in BOOLEAN : ChatReturn(p, ok)
    \/ \E p \in Slots, ok \in BOOLEAN : SummaryReturn(p, ok)
    \/ \E p \in Slots, ok \in BOOLEAN : InboxWrite(p, ok)
    \/ \E p \in Slots, ok \in BOOLEAN : Mark(p, ok)

\* The process is not stopped or restarted.  The interval keeps firing, the
\* synchronous code of a pass runs on, a pending tools.invoke settles, and an
\* append that is tried again and again succeeds in the end.
LiveSpec ==
    /\ Init
    /\ [][LiveNext]_vars
    /\ WF_vars(\E p \in Slots : Fire(p))
    /\ \A p \in Slots :
          /\ WF_vars(LoopBucket(p))
          /\ WF_vars(NextEntry(p))
          /\ WF_vars(\E ok \in BOOLEAN : InboxWrite(p, ok))
          /\ WF_vars(\E ok \in BOOLEAN : Mark(p, ok))
          /\ WF_vars(\E ok \in BOOLEAN : ChatReturn(p, ok))
          /\ WF_vars(\E ok \in BOOLEAN : SummaryReturn(p, ok))
          /\ \A e \in Paths : SF_vars(Mark(p, TRUE) /\ CurPath(p) = e)

\* ------------------------------------------------------------ the tool calls
MaxLimit == 3       \* the greatest limit asked of list_transcripts

Limits == 0 .. MaxLimit

\* the conversation ids asked of get_transcript
ConvQueries == {<<"a", "b", "c">>, <<"a", "b">>, <<"x", "y", "z">>}

\* d?.data?.user_id ?? d?.user_id ?? "", resolved against the contacts
CallerOf(doc) == resolveCallerName(Coalesce(Field(doc, "user_id"), Some(""))[1])

\* one element of the list: the path stands for the timestamp built from the
\* directory name and the time prefix
ListItem(e, processed) ==
    [path |-> e,
     conversationId |-> ConvIdOf(FileName(e)),
     caller |-> IF Parses(Doc(e)) THEN CallerOf(Doc(e)) ELSE "unknown",
     processed |-> e \in processed]

RECURSIVE ListFiles(_, _, _, _, _)
\* the inner loop of listTranscripts: push, then break when the limit is reached
ListFiles(d, names, files, limit, processed) ==
    IF names = <<>> THEN files
    ELSE LET pushed == Append(files, ListItem(<<d, Head(names)>>, processed))
         IN  IF Len(pushed) >= limit THEN pushed
             ELSE ListFiles(d, Tail(names), pushed, limit, processed)

RECURSIVE ListDirs(_, _, _, _)
\* the outer loop of listTranscripts
ListDirs(dirs, files, limit, processed) ==
    IF dirs = <<>> THEN files
    ELSE LET got == ListFiles(Head(dirs), SortedDesc(FilesIn(Head(dirs))), files,
                              limit, processed)
         IN  IF Len(got) >= limit THEN got
             ELSE ListDirs(Tail(dirs), got, limit, processed)

\* files.slice(0, limit), for a limit that is not negative
Slice(files, limit) == SubSeq(files, 1, IF limit < Len(files) THEN limit ELSE Len(files))

listTranscripts(limit) ==
    Slice(ListDirs(SortedDesc(Buckets), <<>>, limit, loadProcessed(ledger)), limit)

\* file.includes(conversationId) && file.endsWith(".json")
Matches(e, q) == Includes(FileName(e), q) /\ EndsWithJson(FileName(e))

RECURSIVE GetLinesOf(_, _)
\* the lines getTranscript renders: the message is trimmed, and no turn of the
\* files above has a time_in_call_secs, so every line is stamped [0:00]
GetLinesOf(turns, callerName) ==
    IF turns = <<>> THEN <<>>
    ELSE LET t == Head(turns)
             msg == Trim(Coalesce(t.message, Some(<<>>))[1])
         IN  (IF msg # <<>> THEN << <<0, 0, SpeakerLabel(t, callerName), msg>> >> ELSE <<>>)
               \o GetLinesOf(Tail(turns), callerName)

Found(e, q) ==
    [kind |-> "transcript", conversationId |-> q, path |-> e,
     caller |-> CallerOf(Doc(e)),
     transcript |-> GetLinesOf(Coalesce(Field(Doc(e), "transcript"), Some(<<>>))[1],
                               CallerOf(Doc(e)))]

NotFound(q) == [kind |-> "not found", conversationId |-> q]

RECURSIVE GetReplies(_, _)
\* getTranscript: the first file of the newest directory that matches is
\* returned, whichever one readdirSync lists first; a match that does not
\* parse throws into the catch, which goes on with the next directory
GetReplies(dirs, q) ==
    IF dirs = <<>> THEN {NotFound(q)}
    ELSE LET hits == {f \in FilesIn(Head(dirs)) : Matches(<<Head(dirs), f>>, q)}
         IN  IF hits = {} THEN GetReplies(Tail(dirs), q)
             ELSE UNION {IF Parses(Doc(<<Head(dirs), f>>))
                           THEN {Found(<<Head(dirs), f>>, q)}
                           ELSE GetReplies(Tail(dirs), q) : f \in hits}

statusCountLines(file) == Len(file)

\* loadProcessed(getTranscriptDir(c)).size
statusCount(file) == Cardinality(loadProcessed(file))

\* execute, action "list_transcripts"
ListTranscripts(limit) ==
    /\ running = 0
    /\ reply = NoReply
    /\ reply' = [kind |-> "list", limit |-> limit, files |-> listTranscripts(limit)]
    /\ UNCHANGED <<mailbox, ledger, cfg, watchInterval, timers, passes, running,
                   ticks, restarts, last, atRestart, inbox, webhookProcess>>

\* execute, action "get_transcript"
GetTranscript(q) ==
    /\ running = 0
    /\ reply = NoReply
    /\ reply' \in GetReplies(SortedDesc(Buckets), q)
    /\ UNCHANGED <<mailbox, ledger, cfg, watchInterval, timers, passes, running,
                   ticks, restarts, last, atRestart, inbox, webhookProcess>>

\* webhookProcess !== null && !webhookProcess.killed
webhookServer ==
    IF webhookProcess # None /\ ~webhookProcess[1].killed
      THEN "running" ELSE "stopped"

\* execute, action "status"
Status ==
    /\ running = 0
    /\ reply = NoReply
    /\ reply' = [kind |-> "status", webhookServer |-> webhookServer,
                 processedCount |-> statusCount(ledger)]
    /\ UNCHANGED <<mailbox, ledger, cfg, watchInterval, timers, passes, running,
                   ticks, restarts, last, atRestart, inbox, webhookProcess>>

\* the request to the provider is on its way and execute awaits the answer
Fetching == [kind |-> "fetch"]

\* what makeOutboundCall answers when the fetch has settled
CallOutcomes == {"call_initiated", "ElevenLabs API error", "Failed to initiate call"}

CallErrorSendsAnyway(to, task) ==
    IF ~to \/ ~task
      THEN [kind |-> "error", text |-> "'to' and 'task' are required for call action."]
      ELSE Fetching

\* execute, action "call", up to its first await: the checks of the
\* parameters and of the credentials, then the fetch
CallStart(to, task) ==
    IF ~to \/ ~task
      THEN [kind |-> "error", text |-> "'to' and 'task' are required for call action."]
    ELSE IF ~cfg.apiKey \/ ~cfg.agentId
      THEN [kind |-> "error",
            text |-> "elevenlabs.apiKey and elevenlabs.agentId must be configured."]
    ELSE Fetching

\* execute, action "call": to and task tell whether the parameter is given
Call(to, task) ==
    /\ running = 0
    /\ reply = NoReply
    /\ reply' = CallStart(to, task)
    /\ UNCHANGED <<mailbox, ledger, cfg, watchInterval, timers, passes, running,
                   ticks, restarts, last, atRestart, inbox, webhookProcess>>

\* the fetch settles: the provider accepts the call or refuses it, or the
\* request fails
CallReturn(outcome) ==
    /\ running = 0
    /\ reply = Fetching
    /\ reply' = [kind |-> "call", text |-> outcome]
    /\ UNCHANGED <<mailbox, ledger, cfg, watchInterval, timers, passes, running,
                   ticks, restarts, last, atRestart, inbox, webhookProcess>>

\* the result is handed to the caller
Return ==
    /\ reply # NoReply
    /\ reply # Fetching
    /\ reply' = NoReply
    /\ UNCHANGED <<mailbox, ledger, cfg, watchInterval, timers, passes, running,
                   ticks, restarts, last, atRestart, inbox, webhookProcess>>

\* --------------------------------------------------- the rest of the machine
\* the content of a hidden file: the last of the file contents above
StrayRecord == Len(Records)

\* something other than the receiver leaves a hidden file in the mailbox
Stray(e) ==
    /\ mailbox[e] = 0
    /\ MailCount < MaxMail
    /\ mailbox' = [mailbox EXCEPT ![e] = StrayRecord]
    /\ UNCHANGED <<ledger, cfg, watchInterval, timers, passes, running,
                   ticks, restarts, last, atRestart, reply, inbox,
                   webhookProcess>>

\* something other than the plugin removes a file that a pass has listed and
\* not read yet
Vanish(e) ==
    /\ mailbox[e] > 0
    /\ \E p \in Slots : /\ passes[p].pc # "idle"
                         /\ passes[p].dateDir = e[1]
                         /\ e[2] \in Range(passes[p].entries)
    /\ mailbox' = [mailbox EXCEPT ![e] = Gone]
    /\ UNCHANGED <<ledger, cfg, watchInterval, timers, passes, running,
                   ticks, restarts, last, atRestart, reply, inbox,
                   webhookProcess>>

\* readdirSync(datePath) throws: the catch goes on with the next directory
BucketUnreadable(p) ==
    /\ running = p
    /\ passes[p].pc = "entry"
    /\ passes[p].entries = <<>>
    /\ passes[p].dirs # <<>>
    /\ passes' = [passes EXCEPT ![p].dateDir = Head(passes[p].dirs),
                                ![p].dirs = Tail(passes[p].dirs)]
    /\ UNCHANGED <<mailbox, ledger, cfg, watchInterval, timers, running,
                   ticks, restarts, last, atRestart, reply, inbox,
                   webhookProcess>>

\* a restart that is not counted
Crash ==
    /\ RestartBody
    /\ UNCHANGED <<restarts, atRestart, webhookProcess>>

\* The plugin's own steps and the steps of its surroundings.  A tool call is
\* answered before anything else happens; here the calls are made with one
\* limit and one conversation id.
EnvNext ==
    \/ reply = NoReply /\ \E e \in Paths, r \in RecordIds : Deliver(e, r)
    \/ reply = NoReply /\ \E e \in StrayPaths : Stray(e)
    \/ reply = NoReply /\ \E e \in AllPaths : Vanish(e)
    \/ reply = NoReply /\ Start
    \/ reply = NoReply /\ Stop
    \/ reply = NoReply /\ Crash
    \/ reply = NoReply /\ \E p \in Slots : Fire(p)
    \/ reply = NoReply /\ \E p \in Slots : LoopBucket(p)
    \/ reply = NoReply /\ \E p \in Slots : BucketUnreadable(p)
    \/ reply = NoReply /\ \E p \in Slots : NextEntry(p)
    \/ reply = NoReply /\ \E p \in Slots, ok \in BOOLEAN : ChatReturn(p, ok)
    \/ reply = NoReply /\ \E p \in Slots, ok \in BOOLEAN : SummaryReturn(p, ok)
    \/ reply = NoReply /\ \E p \in Slots, ok \in BOOLEAN : InboxWrite(p, ok)
    \/ reply = NoReply /\ \E p \in Slots, ok \in BOOLEAN : Mark(p, ok)
    \/ ListTranscripts(1)
    \/ GetTranscript(<<"a", "b">>)
    \/ Status
    \/ \E to, task \in BOOLEAN : Call(to, task)
    \/ \E outcome \in CallOutcomes : CallReturn(outcome)
    \/ Return

EnvSpec == Init /\ [][EnvNext]_vars

\* ------------------------------------------- the tool calls on any directory
MaxLedger == 2      \* lines of the ledger file the calls are tried on

\* the files a transcript directory may hold
Mailboxes ==
    {m \in [AllPaths -> 0 .. Len(Records)] :
        /\ Cardinality({e \in AllPaths : m[e] # 0}) <= MaxMail
        /\ \A e \in StrayPaths : m[e] \in {0, StrayRecord}}

\* the ledger files: any lines, a path twice and the path of a file that is
\* gone included
Ledgers == UNION {[1 .. n -> AllPaths] : n \in 0 .. MaxLedger}

\* no pass is in flight, the directory is in any state, the watcher is
\* started or not, and the credentials are configured or not
QueryInit ==
    /\ mailbox \in Mailboxes
    /\ ledger \in Ledgers
    /\ cfg \in [tools : {TRUE}, inboxDir : {TRUE}, apiKey : BOOLEAN, agentId : BOOLEAN]
    /\ watchInterval \in BOOLEAN
    /\ timers = IF watchInterval THEN 1 ELSE 0
    /\ passes = [p \in Slots |-> IdlePass]
    /\ running = 0
    /\ ticks = 0
    /\ restarts = 0
    /\ last = NoLast
    /\ atRestart = {}
    /\ reply = NoReply
    /\ inbox = {}
    /\ webhookProcess = None

QueryNext ==
    \/ \E n \in Limits : ListTranscripts(n)
    \/ \E q \in ConvQueries : GetTranscript(q)
    \/ Status
    \/ \E to, task \in BOOLEAN : Call(to, task)
    \/ \E outcome \in CallOutcomes : CallReturn(outcome)
    \/ Return

QuerySpec == QueryInit /\ [][QueryNext]_vars

\* ------------------------------------------------- the normalizer at work
\* Two calls have been delivered on two days: one payload of those above and
\* the payload with the same fields in the other shape.  tools.invoke is not
\* there, so the inbox writer is the only sink, and inboxDir is set.
NormInit ==
    /\ \E i \in VariantIds :
          mailbox = [e \in AllPaths |->
                        IF e = <<1, 1>> THEN i ELSE IF e = <<2, 1>> THEN Twin(i) ELSE 0]
    /\ ledger = <<>>
    /\ cfg = [tools |-> FALSE, inboxDir |-> TRUE, apiKey |-> TRUE, agentId |-> TRUE]
    /\ watchInterval = FALSE
    /\ timers = 0
    /\ passes = [p \in Slots |-> IdlePass]
    /\ running = 0
    /\ ticks = 0
    /\ restarts = 0
    /\ last = NoLast
    /\ atRestart = {}
    /\ reply = NoReply
    /\ inbox = {}
    /\ webhookProcess = None

NormNext ==
    \/ Start
    \/ \E p \in Slots : Fire(p)
    \/ \E p \in Slots : NextBucket(p)
    \/ \E p \in Slots : NextEntry(p)
    \/ \E p \in Slots, ok \in BOOLEAN : InboxWrite(p, ok)
    \/ \E p \in Slots, ok \in BOOLEAN : Mark(p, ok)

NormSpec == NormInit /\ [][NormNext]_vars

\* ------------------------------------------------- two calls in the mailbox
\* the payloads that make a document: a turn is retained
SpokenIds == {i \in VariantIds : Dialogue[Payloads[i]] # <<>>}

\* the second call: the nested payload of conversation "abc", 59 seconds long,
\* with the longest dialogue, from any of the callers
SecondCalls ==
    {j \in SpokenIds :
        /\ Payloads[j].data # None
        /\ Payloads[j].data[1].conversation_id = ConvOpts[2]
        /\ Payloads[j].data[1].metadata = Metadata(DurOpts[3])
        /\ Payloads[j].data[1].transcript = TurnOpts[3]}

\* Two calls with dialogue have been delivered: the first at 14:30:00 of day
\* 1, the second at 14:30:30 of the same day or on the next day.  The inbox
\* writer is the only sink.
ClashInit ==
    /\ \E i \in SpokenIds, j \in SecondCalls, e2 \in {<<1, 2>>, <<2, 1>>} :
          /\ i # j
          /\ mailbox = [e \in AllPaths |->
                          IF e = <<1, 1>> THEN i ELSE IF e = e2 THEN j ELSE 0]
    /\ ledger = <<>>
    /\ cfg = [tools |-> FALSE, inboxDir |-> TRUE, apiKey |-> TRUE, agentId |-> TRUE]
    /\ watchInterval = FALSE
    /\ timers = 0
    /\ passes = [p \in Slots |-> IdlePass]
    /\ running = 0
    /\ ticks = 0
    /\ restarts = 0
    /\ last = NoLast
    /\ atRestart = {}
    /\ reply = NoReply
    /\ inbox = {}
    /\ webhookProcess = None

ClashSpec == ClashInit /\ [][NormNext]_vars

\* ----------------------------------------------------- the receiver service
\* The ChildProcess object of a receiver just spawned: no signal was sent to
\* it through the object (killed) and the process has not exited.
Spawned == Some([killed |-> FALSE, exited |-> FALSE])

\* the process behind the handle the plugin holds is alive
ReceiverAlive == webhookProcess # None /\ ~webhookProcess[1].exited

\* alfred-talk-webhook start(): without the server script or the Python
\* environment it returns early, else it spawns the receiver and keeps the
\* ChildProcess, whatever it held before
WebhookStart(ready) ==
    /\ running = 0
    /\ webhookProcess' = IF ready THEN Spawned ELSE webhookProcess
    /\ UNCHANGED <<mailbox, ledger, cfg, watchInterval, timers, passes, running,
                   ticks, restarts, last, atRestart, reply, inbox>>

\* the receiver exits on its own (a crash, the port taken, a normal exit):
\* the "exit" listener writes a log line and keeps the ChildProcess
WebhookExit ==
    /\ running = 0
    /\ ReceiverAlive
    /\ webhookProcess' = Some([webhookProcess[1] EXCEPT !.exited = TRUE])
    /\ UNCHANGED <<mailbox, ledger, cfg, watchInterval, timers, passes, running,
                   ticks, restarts, last, atRestart, reply, inbox>>

\* alfred-talk-webhook stop(): SIGTERM to the process held, then the handle
\* is null
WebhookStop ==
    /\ running = 0
    /\ webhookProcess # None
    /\ webhookProcess' = None
    /\ UNCHANGED <<mailbox, ledger, cfg, watchInterval, timers, passes, running,
                   ticks, restarts, last, atRestart, reply, inbox>>

\* the receiver writes a transcript file while it is alive
ReceiverDelivers(e, r) == ReceiverAlive /\ Deliver(e, r)

ServiceNext ==
    \/ \E ready \in BOOLEAN : WebhookStart(ready)
    \/ WebhookExit
    \/ WebhookStop
    \/ \E e \in Paths, r \in RecordIds : ReceiverDelivers(e, r)
    \/ Status
    \/ Return

\* the host starts and stops the receiver service, the receiver may exit at
\* any time, and status is asked in between, on any transcript directory
ServiceSpec == QueryInit /\ [][ServiceNext]_vars

\* ------------------------------------------------------ the watcher service
MaxHandles == 2     \* interval timers alive at once when start() is called again

\* alfred-talk-transcript-watcher start() while a timer is alive: setInterval
\* makes one more timer and its handle takes the place of the old one in
\* watchInterval, so the old timer can no longer be cleared
StartAgain ==
    /\ running = 0
    /\ timers > 0
    /\ timers < MaxHandles
    /\ watchInterval' = TRUE
    /\ timers' = timers + 1
    /\ UNCHANGED <<mailbox, ledger, cfg, passes, running, ticks, restarts,
                   last, atRestart, reply, inbox, webhookProcess>>

WatchNext ==
    \/ \E e \in Paths, r \in RecordIds : Deliver(e, r)
    \/ Start
    \/ StartAgain
    \/ Stop
    \/ \E p \in Slots : Fire(p)
    \/ \E p \in Slots : LoopBucket(p)
    \/ \E p \in Slots : NextEntry(p)
    \/ \E p \in Slots, ok \in BOOLEAN : ChatReturn(p, ok)
    \/ \E p \in Slots, ok \in BOOLEAN : SummaryReturn(p, ok)
    \/ \E p \in Slots, ok \in BOOLEAN : InboxWrite(p, ok)
    \/ \E p \in Slots, ok \in BOOLEAN : Mark(p, ok)

\* The host starts and stops the service as it likes.  The synchronous code
\* of a pass runs on, and a pending tools.invoke settles and its continuation
\* gets the thread, however often other passes take it in between.
WatchSpec ==
    /\ Init
    /\ [][WatchNext]_vars
    /\ \A p \in Slots :
          /\ WF_vars(LoopBucket(p))
          /\ WF_vars(NextEntry(p))
          /\ WF_vars(\E ok \in BOOLEAN : InboxWrite(p, ok))
          /\ WF_vars(\E ok \in BOOLEAN : Mark(p, ok))
          /\ SF_vars(\E ok \in BOOLEAN : ChatReturn(p, ok))
          /\ SF_vars(\E ok \in BOOLEAN : SummaryReturn(p, ok))

\* ------------------------------------------------------------- properties
InProcess(p) == passes[p].pc \in {"chat", "summary", "inbox", "mark"}

Dispatching(p) == passes[p].pc \in {"chat", "summary", "inbox"}

Present(e) == mailbox[e] > 0

HasDialogue(e) == Present(e) /\ Parses(Doc(e)) /\ Lines(Doc(e)) # <<>>

\* pass p takes a step of its own (a restart drops every pass at once)
StepOf(p) == passes'[p] # passes[p] /\ restarts' = restarts

SinksSettled(p) ==
    /\ passes[p].chat \in {"returned", "skipped"}
    /\ passes[p].summary \in {"returned", "skipped"}
    /\ passes[p].inbox \in {"returned", "skipped"}

\* C1: poller ticks never overlap: at most one execution of
\* scanAndProcessTranscripts is in flight at any time.
C1_TicksNeverOverlap == Cardinality({p \in Slots : InFlight(p)}) <= 1

\* C2: no mailbox entry is inside processTranscript for two passes at once.
C2_NoEntryInTwoPasses ==
    \A p, q \in Slots :
        (p # q /\ InProcess(p) /\ InProcess(q)) => CurPath(p) # CurPath(q)

\* C3: the paths that were in the ledger when the process restarted are
\* still in it, and no tick run after the restart hands one of them to the
\* sinks or to markProcessed again.
C3_NoRedispatchAfterRestart ==
    /\ atRestart \subseteq Range(ledger)
    /\ \A p \in Slots : InProcess(p) => CurPath(p) \notin atRestart

C3_Witness ==
    /\ restarts = 1
    /\ last.valid /\ last.n0 >= 1
    /\ \E e \in atRestart : HasDialogue(e)

\* a sink is invoked for pass p's file in this step
SinkInvokedStep(p) ==
    \/ passes'[p].pc = "chat" /\ passes[p].pc # "chat"
    \/ passes'[p].pc = "summary" /\ passes[p].pc = "chat"
    \/ passes'[p].pc = "mark" /\ passes[p].pc = "inbox" /\ cfg.inboxDir

\* pass p is the second of two runs in succession, with no file added since
\* the first one started; kinds tells which first runs count
SecondRun(p, kinds) ==
    InFlight(p) /\ passes[p].succ \in kinds /\ MailCount = passes[p].n0

\* C4 as stated: the second of two runs in succession, no file added
\* between or during them, appends nothing and invokes no sink.
C4_Original ==
    [][\A p \in Slots : SecondRun(p, {"any", "clean"}) =>
          (ledger' = ledger /\ (StepOf(p) => ~SinkInvokedStep(p)))]_vars

\* C4 (amended): the second of two runs in succession, no file added between
\* or during them and no ledger append having failed in the first, appends
\* nothing to the ledger and invokes no sink.
C4_IdempotentAfterCleanRun ==
    [][\A p \in Slots : SecondRun(p, {"clean"}) =>
          (ledger' = ledger /\ (StepOf(p) => ~SinkInvokedStep(p)))]_vars

C4_Witness ==
    \E p \in Slots :
        /\ SecondRun(p, {"clean"})
        /\ passes[p].n0 >= 1 /\ ledger # <<>>
        /\ passes[p].pc = "entry" /\ passes[p].dateDir # 0
        /\ passes[p].entries = <<>> /\ passes[p].dirs = <<>>

\* the record is not valid JSON, or lacks the caller or the turns field
Malformed(doc) ==
    \/ ~doc.valid
    \/ Field(doc, "user_id") = None
    \/ Field(doc, "transcript") = None

DroppedMessages ==
    {<<>>, <<"<", "b", ">">>, <<" ", "N", "o", "n", "e">>, <<"n", "o", "n", "e">>}

\* the file at e is a JSON record none of whose turns has a message to keep
NoRetainedLine(e) ==
    /\ Present(e) /\ Doc(e).valid
    /\ LET turns == Coalesce(Field(Doc(e), "transcript"), Some(<<>>))[1]
       IN  \A i \in 1 .. Len(turns) :
               Coalesce(turns[i].message, Some(<<>>))[1] \in DroppedMessages

\* C6 as stated: an entry without a retained line is in the ledger after one
\* tick, and no sink is invoked for it.
C6_Original ==
    /\ \A p \in Slots : Dispatching(p) => ~NoRetainedLine(CurPath(p))
    /\ (last.valid /\ MailCount = last.n0) =>
          \A e \in Paths : NoRetainedLine(e) => e \in Range(ledger)

\* C6 (amended): no sink is invoked for an entry without a retained line, and
\* after a tick in which no ledger append failed every such entry that was in
\* the mailbox when the tick started is in the ledger.
C6_EmptyDialogueMarkedNoSink ==
    /\ \A p \in Slots : Dispatching(p) => ~NoRetainedLine(CurPath(p))
    /\ (last.valid /\ last.clean /\ MailCount = last.n0) =>
          \A e \in Paths : NoRetainedLine(e) => e \in Range(ledger)

C6_Witness ==
    /\ last.valid /\ last.clean /\ last.runs = 1 /\ MailCount = last.n0
    /\ \E e \in Paths : mailbox[e] = 3 /\ NoRetainedLine(e) /\ e \in Range(ledger)

\* C7: the ledger file only grows: every step leaves the old lines in place
\* as a prefix of the new content.
C7_LedgerAppendOnly ==
    [][Len(ledger') >= Len(ledger) /\ SubSeq(ledger', 1, Len(ledger)) = ledger]_vars

C7_Witness == restarts = 1 /\ Len(ledger) >= 2 /\ atRestart # {} /\ Len(ledger) > Cardinality(atRestart)

\* C8: whichever way a sink call ends, processTranscript goes on with the
\* same file to the next sink, and after the inbox writer to markProcessed.
C8_SinkFailuresIsolated ==
    [][\A p \in Slots : StepOf(p) =>
          /\ passes[p].pc = "chat" =>
                (passes'[p].pc = "summary" /\ passes'[p].file = passes[p].file)
          /\ passes[p].pc = "summary" =>
                (passes'[p].pc = "inbox" /\ passes'[p].file = passes[p].file)
          /\ passes[p].pc = "inbox" =>
                (passes'[p].pc = "mark" /\ passes'[p].file = passes[p].file)]_vars

C8_Witness ==
    /\ cfg.tools /\ cfg.inboxDir
    /\ \E p \in Slots : passes[p].pc = "mark" /\ passes[p].failed /\ SinksSettled(p)

\* C9: a pass appends an entry with dialogue to the ledger only when each of
\* its three sinks has returned (or is not configured).
C9_MarkAfterSinks ==
    [][\A p \in Slots :
          (running = p /\ passes[p].pc = "mark" /\ ledger' # ledger
             /\ HasDialogue(CurPath(p))) => SinksSettled(p)]_vars

C9_Witness ==
    /\ cfg.tools /\ cfg.inboxDir
    /\ \E p \in Slots : passes[p].pc = "mark" /\ HasDialogue(CurPath(p)) /\ SinksSettled(p)

\* C10: when markProcessed throws for an entry, the entry is not in the
\* ledger and the pass goes on with the files that are left; and a pass that
\* comes to an entry with dialogue that is not in the ledger hands it to
\* processTranscript, which starts with the first configured sink again.
C10_FailedAppendRetried ==
    [][\A p \in Slots :
          /\ (running = p /\ passes[p].pc = "mark" /\ StepOf(p) /\ ledger' = ledger) =>
                /\ CurPath(p) \notin Range(ledger')
                /\ passes'[p].pc = "entry"
                /\ passes'[p].entries = passes[p].entries
                /\ passes'[p].dirs = passes[p].dirs
          /\ (running = p /\ passes[p].pc = "entry" /\ passes[p].entries # <<>> /\ StepOf(p)
                /\ <<passes[p].dateDir, Head(passes[p].entries)>> \notin Range(ledger)
                /\ HasDialogue(<<passes[p].dateDir, Head(passes[p].entries)>>)) =>
                /\ passes'[p].file = Head(passes[p].entries)
                /\ passes'[p].pc = IF cfg.tools THEN "chat" ELSE "inbox"]_vars

\* the file pass p's inner loop is about to look at
HeadPath(p) == <<passes[p].dateDir, Head(passes[p].entries)>>

\* C11: when processTranscript throws for an entry (its file does not parse,
\* or its markProcessed fails) the pass keeps the files that are left in the
\* bucket and the buckets that are left, and it hands every file that is not
\* in its ledger snapshot to processTranscript.
C11_FailureDoesNotAbortScan ==
    [][\A p \in Slots : (running = p /\ StepOf(p)) =>
          /\ (passes[p].pc = "mark" /\ ledger' = ledger) =>
                /\ passes'[p].pc = "entry"
                /\ passes'[p].entries = passes[p].entries
                /\ passes'[p].dirs = passes[p].dirs
          /\ (passes[p].pc = "entry" /\ passes[p].entries # <<>>
                /\ HeadPath(p) \notin passes[p].processed) =>
                IF Parses(Doc(HeadPath(p)))
                  THEN /\ passes'[p].pc \in {"chat", "inbox", "mark"}
                       /\ passes'[p].file = Head(passes[p].entries)
                       /\ passes'[p].entries = Tail(passes[p].entries)
                       /\ passes'[p].dirs = passes[p].dirs
                  ELSE /\ passes'[p].pc = "entry"
                       /\ passes'[p].entries = Tail(passes[p].entries)
                       /\ passes'[p].dirs = passes[p].dirs]_vars

C11_Witness ==
    \E p \in Slots : ~passes[p].clean /\ InProcess(p) /\ passes[p].n0 = 2

\* C12 as stated: an entry one of whose sinks failed is not marked processed
\* by the pass that saw the failure.
C12_Original ==
    [][\A p \in Slots :
          (running = p /\ passes[p].pc = "mark" /\ passes[p].failed /\ StepOf(p)) =>
              ledger' = ledger]_vars

\* C12 (amended): a sink failure is not a failure of processTranscript: the
\* step in which a sink call ends never gives the file back to the scan loop
\* and never writes the ledger, and the append that follows a failed sink
\* records the very file whose sink failed.
C12_SinkFailureStillMarked ==
    [][\A p \in Slots : StepOf(p) =>
          /\ Dispatching(p) =>
                /\ passes'[p].pc \in {"summary", "inbox", "mark"}
                /\ passes'[p].file = passes[p].file
                /\ ledger' = ledger
          /\ (passes[p].pc = "mark" /\ passes[p].failed /\ ledger' # ledger) =>
                ledger' = Append(ledger, CurPath(p))]_vars

C12_Witness ==
    \E p \in Slots :
        /\ passes[p].pc = "mark" /\ passes[p].failed
        /\ HasDialogue(CurPath(p)) /\ CurPath(p) \notin Range(ledger)

\* every sink that is configured has returned for pass p's file
SinksAttempted(p) ==
    /\ cfg.tools => (passes[p].chat = "returned" /\ passes[p].summary = "returned")
    /\ cfg.inboxDir => passes[p].inbox = "returned"

\* C13: with the watcher running, every file in the mailbox that parses as
\* JSON is in the ledger in the end; and a pass that appends a file with
\* dialogue has called every configured sink for it before.
C13_EventuallyDrained ==
    /\ \A e \in Paths :
          (Present(e) /\ Parses(Doc(e)) /\ timers > 0) ~> (e \in Range(ledger))
    /\ [][\A p \in Slots :
            (running = p /\ passes[p].pc = "mark" /\ ledger' # ledger
               /\ Dialogue[Doc(CurPath(p))] # <<>>) => SinksAttempted(p)]_vars

C13_Witness ==
    /\ timers > 0 /\ MailCount = 2 /\ cfg.tools
    /\ \A e \in Paths : Present(e) => (Parses(Doc(e)) /\ e \in Range(ledger))
    /\ \E e \in Paths : Present(e) /\ Dialogue[Doc(e)] # <<>>

\* C14: a pass hands the files that are not in its ledger snapshot to
\* processTranscript newest first: when it hands one over, every such file
\* still to come in the bucket has a smaller name, and every date directory
\* still to come is older.
C14_NewestFirst ==
    [][\A p \in Slots :
          (running = p /\ passes[p].pc = "entry" /\ passes[p].entries # <<>>
             /\ StepOf(p) /\ HeadPath(p) \notin passes[p].processed) =>
              /\ \A i \in 2 .. Len(passes[p].entries) :
                    <<passes[p].dateDir, passes[p].entries[i]>> \notin passes[p].processed
                        => passes[p].entries[i] < Head(passes[p].entries)
              /\ \A i \in 1 .. Len(passes[p].dirs) :
                    passes[p].dirs[i] < passes[p].dateDir]_vars

\* the mailbox entries: the transcript files the receiver wrote
Entries == {e \in Paths : Present(e)}

\* a is more recent than b by (date directory, file name)
Newer(a, b) == a[1] > b[1] \/ (a[1] = b[1] /\ a[2] > b[2])

\* C15: list_transcripts with limit N answers with min(N, number of mailbox
\* entries) items, which are the greatest entries, in descending order, each
\* with a processed flag that tells whether its path is in the ledger file.
C15_ListNewestWithFlags ==
    reply.kind = "list" =>
        LET fs == reply.files
            n == IF reply.limit < Cardinality(Entries) THEN reply.limit
                 ELSE Cardinality(Entries)
            listed == {fs[i].path : i \in 1 .. Len(fs)}
        IN  /\ Len(fs) = n
            /\ listed \subseteq Entries
            /\ \A i, j \in 1 .. Len(fs) : i < j => Newer(fs[i].path, fs[j].path)
            /\ \A e \in Entries \ listed : \A x \in listed : Newer(x, e)
            /\ \A i \in 1 .. Len(fs) : fs[i].processed = (fs[i].path \in Range(ledger))

\* C16: get_transcript answers with the transcript of a mailbox entry whose
\* file name carries exactly the conversation id asked for, and with "not
\* found" when no entry carries it.
C16_GetExactConversation ==
    /\ reply.kind = "transcript" =>
          /\ reply.path \in Entries
          /\ ConvIdOf(FileName(reply.path)) = reply.conversationId
    /\ reply.kind = "not found" =>
          \A e \in Entries : ConvIdOf(FileName(e)) # reply.conversationId

\* C17: the processedCount of a status answer is the number of entry
\* identifiers in the ledger file, whatever lines the file holds.
C17_StatusCountsLedger ==
    reply.kind = "status" =>
        reply.processedCount = Cardinality({e \in AllPaths : \E i \in 1 .. Len(ledger) : ledger[i] = e})

C17_Witness ==
    /\ reply.kind = "status" /\ reply.processedCount = 1
    /\ Len(ledger) = 2 /\ ledger[1] = ledger[2]

\* C18: the files of the mailbox change only when something other than the
\* plugin writes or removes one: no step of a tick, of processTranscript or
\* of a tool call adds, removes or rewrites a file.
C18_MailboxUntouched ==
    [][mailbox' # mailbox =>
          \/ \E e \in Paths, r \in RecordIds : Deliver(e, r)
          \/ \E e \in StrayPaths : Stray(e)
          \/ \E e \in AllPaths : Vanish(e)]_vars

C18_Witness ==
    /\ reply.kind = "transcript"
    /\ reply.path \in Entries /\ reply.path \in Range(ledger)
    /\ \E p \in Slots : InProcess(p)

\* a hidden file, or a file inside a hidden directory
Hidden(e) == IsDot(e[1]) \/ IsDot(e[2])

\* C19: no pass hands a hidden file to processTranscript and no
\* list_transcripts answer holds one.
C19_HiddenNeverHandled ==
    /\ \A p \in Slots : InProcess(p) => ~Hidden(CurPath(p))
    /\ reply.kind = "list" => \A i \in 1 .. Len(reply.files) : ~Hidden(reply.files[i].path)

\* C20: a pass that finds the next file gone, or that cannot list the next
\* date directory, writes nothing to the ledger, calls no sink, and goes on
\* with the files and directories that are left.
C20_TransientSkipped ==
    [][\A p \in Slots :
          (running = p /\ passes[p].pc = "entry" /\ passes'[p] # passes[p]
             /\ passes'[p].pc # "idle") =>
              /\ (passes[p].entries # <<>> /\ HeadPath(p) \notin passes[p].processed
                    /\ ~Readable(HeadPath(p))) =>
                    /\ ledger' = ledger
                    /\ passes'[p].pc = "entry"
                    /\ passes'[p].entries = Tail(passes[p].entries)
                    /\ passes'[p].dirs = passes[p].dirs
              /\ (passes[p].entries = <<>> /\ passes[p].dirs # <<>>
                    /\ Range(passes'[p].entries) # FilesIn(Head(passes[p].dirs))) =>
                    /\ ledger' = ledger
                    /\ passes'[p].pc = "entry"
                    /\ passes'[p].entries = <<>>
                    /\ passes'[p].dirs = Tail(passes[p].dirs)]_vars

C20_Witness ==
    \E p \in Slots, e \in Paths :
        /\ mailbox[e] = Gone /\ e \notin Range(ledger)
        /\ \A q \in Slots \ {p} : ~InFlight(q)
        /\ InProcess(p) /\ passes[p].dateDir = e[1] /\ CurPath(p) # e
        /\ e \notin passes[p].processed /\ e[2] \notin Range(passes[p].entries)

\* C21: once stop() has returned (the handle is null) no new pass begins;
\* stop() itself leaves every pass in flight as it is, and each of them goes
\* on to its return.
C21_StopEndsTicks ==
    /\ [][\A p \in Slots : (~watchInterval /\ ~InFlight(p)) => ~InFlight(p)']_vars
    /\ [][(watchInterval /\ ~watchInterval') => passes' = passes]_vars
    /\ \A p \in Slots : (InFlight(p) /\ ~watchInterval) ~> ~InFlight(p)

\* the provider credentials do not both resolve to a value
CredentialsMissing == ~cfg.apiKey \/ ~cfg.agentId

\* C22: with the credentials missing, a call is answered at once with an
\* error text: no request goes to the provider, and the ledger, the mailbox
\* and the watcher are as before.
C22_NoCredentialsNoCall ==
    [][(CredentialsMissing /\ reply = NoReply /\ reply' # NoReply
          /\ reply'.kind \notin {"list", "transcript", "not found", "status"}) =>
            /\ reply'.kind = "error"
            /\ reply' # Fetching
            /\ UNCHANGED <<mailbox, ledger, cfg, watchInterval, timers, passes, running, webhookProcess>>]_vars

C22_Witness ==
    /\ CredentialsMissing
    /\ reply.kind = "error"
    /\ reply.text = "elevenlabs.apiKey and elevenlabs.agentId must be configured."
    /\ ledger # <<>> /\ MailCount > 0 /\ watchInterval

\* the inbox documents written for the call at e (one call a day here)
DocsOf(e) == {f \in inbox : f.content.date = DateName(e[1])}

\* the turns of the file at e
TurnsOf(e) == Coalesce(Field(Doc(e), "transcript"), Some(<<>>))[1]

\* the turn is one of those that make a line
Kept(t) == Retained(CleanMessage(t))

\* the name the claim gives to a phone string
ExpectedCaller(phone) ==
    IF phone \in DOMAIN Contacts THEN Contacts[phone]
    ELSE IF phone # "" THEN phone ELSE "Unknown caller"

\* C23: the caller name of a document is the directory's name for the phone
\* of its payload when the phone is mapped, else the phone string when it is
\* not empty, else "Unknown caller"; and the line of every "user" turn is
\* labelled with that name.
C23_CallerNameResolved ==
    \A e \in Paths : Present(e) => \A f \in DocsOf(e) :
        LET phone == Coalesce(Field(Doc(e), "user_id"), Some(""))[1]
            kept == SelectSeq(TurnsOf(e), Kept)
        IN  /\ f.content.caller = ExpectedCaller(phone)
            /\ Len(f.content.lines) = Len(kept)
            /\ \A i \in 1 .. Len(kept) :
                  kept[i].role = Some("user") =>
                      f.content.lines[i][1] = ExpectedCaller(phone)

C23_Witness ==
    \E f \in inbox :
        /\ f.content.phone = "+19995550000" /\ f.content.caller = "+19995550000"
        /\ \E i \in 1 .. Len(f.content.lines) : f.content.lines[i][1] = "+19995550000"

\* the call duration a payload carries at data.metadata.call_duration_secs,
\* if any
NestedDuration(doc) ==
    IF doc.data # None /\ doc.data[1].metadata # None
      THEN doc.data[1].metadata[1].call_duration_secs
      ELSE None

\* <d div 60>m<d mod 60>s for the durations of the payloads, written out
ExpectedDuration(d) ==
    CASE d = None -> UnknownDuration
      [] d = Some(0) -> UnknownDuration
      [] d = Some(59) -> <<"0", "m", "5", "9", "s">>
      [] d = Some(60) -> <<"1", "m", "0", "s">>
      [] d = Some(125) -> <<"2", "m", "5", "s">>

\* C24: the duration of a document is <d div 60>m<d mod 60>s for the duration
\* d > 0 that processTranscript reads from the payload (125 gives 2m5s), and
\* "unknown duration" when d is 0 or the field is not there.
C24_DurationRendered ==
    \A e \in Paths : (Present(e) /\ Doc(e).data # None) =>
        \A f \in DocsOf(e) : f.content.duration = ExpectedDuration(NestedDuration(Doc(e)))

C24_Witness ==
    \E e \in Paths :
        /\ Present(e) /\ NestedDuration(Doc(e)) = Some(125)
        /\ \E f \in DocsOf(e) : f.content.duration = <<"2", "m", "5", "s">>

\* the slug the claim gives to the caller names of the payloads, written out
ExpectedSlug(callerName) ==
    CASE callerName = "Mom" -> <<"m", "o", "m">>
      [] callerName = "+19995550000" ->
            <<"-", "1", "9", "9", "9", "5", "5", "5", "0", "0", "0", "0">>
      [] callerName = "Unknown caller" ->
            <<"u", "n", "k", "n", "o", "w", "n", "-", "c", "a", "l", "l", "e", "r">>

\* C25: the name of the document written for a call is
\* voice-<date>-<HHMM>-<slug>.md, of the date directory, the hour and minute
\* of the file name and the slug of the caller name, whatever else the
\* payload holds.
C25_InboxFilename ==
    \A e \in Paths : Present(e) => \A f \in DocsOf(e) :
        f.name = <<"v", "o", "i", "c", "e", "-">> \o DateName(e[1]) \o <<"-">>
                   \o <<TimeOf(e[2])[1], TimeOf(e[2])[2], TimeOf(e[2])[4], TimeOf(e[2])[5]>>
                   \o <<"-">> \o ExpectedSlug(f.content.caller) \o <<".", "m", "d">>

\* voice-2024-03-01-1430-mom.md
C25_Witness ==
    \E f \in inbox :
        f.name = <<"v", "o", "i", "c", "e", "-", "2", "0", "2", "4", "-", "0", "3", "-", "0", "1",
                   "-", "1", "4", "3", "0", "-", "m", "o", "m", ".", "m", "d">>

\* what is left of each message of the payloads once the tags are removed
\* and the ends trimmed, written out; <<>> where the turn is to be dropped
\* (nothing left, or the word none in any case)
ExpectedText(message) ==
    CASE message = None -> <<>>
      [] message = Some(<<>>) -> <<>>
      [] message = Some(<<"<", "b", ">">>) -> <<>>
      [] message = Some(<<"n", "o", "n", "e">>) -> <<>>
      [] message = Some(<<" ", "N", "o", "n", "e">>) -> <<>>
      [] message = Some(<<"<", "b", ">", "h", "i">>) -> <<"h", "i">>
      [] message = Some(<<" ", "h", "i", " ">>) -> <<"h", "i">>
      [] message = Some(<<"h", "<", "b", ">", "i">>) -> <<"h", "i">>
      [] message = Some(<<"h", "i">>) -> <<"h", "i">>
      [] message = Some(<<"H", "i">>) -> <<"H", "i">>

RECURSIVE ExpectedTexts(_)
\* the texts of the turns to keep, in the order of the turns
ExpectedTexts(turns) ==
    IF turns = <<>> THEN <<>>
    ELSE (IF ExpectedText(Head(turns).message) # <<>>
            THEN <<ExpectedText(Head(turns).message)>> ELSE <<>>)
           \o ExpectedTexts(Tail(turns))

\* the turns of payload i
TurnsOfPayload(i) == Coalesce(Field(Payloads[i], "transcript"), Some(<<>>))[1]

\* C26: the texts of a document's lines are, in the order of the turns, the
\* cleaned messages of exactly the turns whose cleaned message is neither
\* empty nor the word none; and processTranscript goes on to its sinks exactly
\* when there is such a turn.
C26_TurnsFiltered ==
    /\ \A e \in Paths : Present(e) => \A f \in DocsOf(e) :
          [i \in 1 .. Len(f.content.lines) |-> f.content.lines[i][2]]
              = ExpectedTexts(TurnsOf(e))
    /\ \A p \in Slots :
          /\ passes[p].pc = "inbox" => ExpectedTexts(TurnsOfPayload(passes[p].data)) # <<>>
          /\ (passes[p].pc = "mark" /\ passes[p].inbox = "todo") =>
                ExpectedTexts(TurnsOfPayload(passes[p].data)) = <<>>

C26_Witness ==
    \E e \in Paths :
        /\ Present(e) /\ Len(TurnsOf(e)) = 6
        /\ \E f \in DocsOf(e) : Len(f.content.lines) = 5

\* the turn is one of those to keep
KeptExpected(t) == ExpectedText(t.message) # <<>>

\* C27: the line of a turn of role "agent" is labelled Alfred, the name the
\* plugin gives its voice agent; the line of a turn of role "user" is labelled
\* with the caller name of the document; the line of a turn of any other role
\* is labelled with the role string as it is.
C27_RolesMapped ==
    \A e \in Paths : Present(e) => \A f \in DocsOf(e) :
        LET kept == SelectSeq(TurnsOf(e), KeptExpected)
        IN  /\ Len(f.content.lines) = Len(kept)
            /\ \A i \in 1 .. Len(kept) :
                  kept[i].role # None =>
                      f.content.lines[i][1] =
                          IF kept[i].role = Some("agent") THEN "Alfred"
                          ELSE IF kept[i].role = Some("user") THEN f.content.caller
                          ELSE kept[i].role[1]

C27_Witness ==
    \E f \in inbox :
        /\ f.content.caller = "Mom"
        /\ \A l \in {"Alfred", "Mom", "system"} :
              \E i \in 1 .. Len(f.content.lines) : f.content.lines[i][1] = l

\* C28: the documents written for two payloads that carry the same caller
\* phone, conversation id, call duration and turns, one flat and one nested,
\* have the same caller name, conversation id, duration string and lines.
C28_SchemaTolerant ==
    \A e1, e2 \in Paths :
        (Present(e1) /\ Present(e2) /\ mailbox[e1] \in VariantIds
           /\ mailbox[e2] = Twin(mailbox[e1])) =>
            \A f1 \in DocsOf(e1), f2 \in DocsOf(e2) :
                /\ f1.content.caller = f2.content.caller
                /\ f1.content.conversation_id = f2.content.conversation_id
                /\ f1.content.duration = f2.content.duration
                /\ f1.content.lines = f2.content.lines

\* C29: a step that answers a tool call (list_transcripts, get_transcript,
\* status, call) or hands the answer back leaves the ledger file as it is, and
\* every step that changes the file is the markProcessed of a pass in flight,
\* appending the path of the file that pass is processing.
C29_OnlyPollerWritesLedger ==
    [][/\ reply' # reply => ledger' = ledger
       /\ ledger' # ledger =>
             \E p \in Slots :
                 /\ running = p /\ InFlight(p) /\ passes[p].pc = "mark"
                 /\ ledger' = Append(ledger, CurPath(p))]_vars

C29_Witness ==
    /\ reply = [kind |-> "call", text |-> "call_initiated"]
    /\ Len(ledger) >= 2
    /\ \E p \in Slots : passes[p].pc = "chat"

\* C30: when processTranscript comes to its inbox writer for a call whose
\* document is in the inbox already, the step leaves the inbox as it is: the
\* same path is written with the same content (or the write fails); and the
\* inbox never holds two documents for one call.
C30_DuplicateDeliveryHarmless ==
    /\ [][\A p \in Slots :
            (running = p /\ passes[p].pc = "inbox" /\ StepOf(p)
               /\ DocsOf(CurPath(p)) # {}) => inbox' = inbox]_vars
    /\ [][\A e \in Paths : Cardinality({f \in inbox' : f.content.date = DateName(e[1])}) <= 1]_vars

C30_Witness ==
    /\ last.valid /\ ~last.clean
    /\ \E p \in Slots :
          /\ passes[p].pc = "mark" /\ passes[p].inbox = "returned" /\ ~passes[p].failed
          /\ CurPath(p) \notin Range(ledger)
          /\ DocsOf(CurPath(p)) # {}
          /\ \E e \in Paths : e # CurPath(p) /\ DocsOf(e) # {}

\* C31: a status answer says that the webhook receiver is "running" only
\* when the receiver process is alive at the time of the query: not after the
\* process has exited on its own and not after the service's stop().
C31_RunningMeansAlive ==
    [][(reply' # reply /\ reply'.kind = "status"
          /\ reply'.webhookServer = "running") => ReceiverAlive]_vars

\* C31, the part that holds: after stop() (no ChildProcess is held) the
\* answer is "stopped"
C31_StoppedAfterStop ==
    [][(reply' # reply /\ reply'.kind = "status" /\ webhookProcess = None)
          => reply'.webhookServer = "stopped"]_vars

\* C32: an inbox document, once written, stays in the inbox: processing
\* another mailbox entry never replaces it, so after two distinct entries
\* with dialogue are processed the inbox holds a document for each, also
\* when both calls come from one caller within one minute of one day.
C32_NoOverwrite ==
    [][\A f \in inbox : f \in inbox']_vars

\* C32, the part that holds: a document is replaced only by the document of a
\* call of the same day, the same minute and the same caller name
C32_ReplacedBySameMinute ==
    [][\A f \in inbox : f \in inbox' \/
          \E g \in inbox' : /\ g \notin inbox
                            /\ g.content.date = f.content.date
                            /\ g.content.time = f.content.time
                            /\ ExpectedSlug(g.content.caller) =
                                  ExpectedSlug(f.content.caller)]_vars

\* C33: the ledger file holds no entry identifier on two lines, whatever
\* ticks have run and however they interleaved.
C33_LedgerLinesDistinct ==
    \A i, j \in 1 .. Len(ledger) : ledger[i] = ledger[j] => i = j

\* C34: the watcher has at most one interval timer alive, and none once
\* stop() has returned (the handle is null), so that no tick fires after the
\* last stop(), however often start() was called before it.
C34_OneTimerPerWatcher ==
    /\ timers <= 1
    /\ ~watchInterval => timers = 0

====
